---- MODULE Spec2Model ----
(***************************************************************************)
(* Model of the utility layer of nanoGPT: src/utils/pylogger.py            *)
(* (get_pylogger) and src/utils/utils.py (task_wrapper, extras,            *)
(* enforce_tag, print_config_tree, close_loggers).                         *)
(*                                                                         *)
(* Every function is a sequence of statements.  A statement is an operator *)
(* from an execution record to an execution record; the record carries the *)
(* configuration, the files of the output directory, the warnings filter,  *)
(* the wandb run, the observable events of the call in order, the pending  *)
(* exception and the return value.  A statement executed while an          *)
(* exception is pending does nothing (Python unwinds).                     *)
(***************************************************************************)
EXTENDS Naturals, Sequences, FiniteSets

VARIABLES
    rank,       \* rank_zero_only.rank of this process
    multirun,   \* "id" in HydraConfig().cfg.hydra.job
    cfg,        \* the DictConfig handed to the utilities
    files,      \* files written under cfg.paths.output_dir: name -> content
    filt,       \* TRUE once warnings.filterwarnings("ignore") was applied
    wandb,      \* "absent" (not importable), "idle" (no run), "running"
    wrapped,    \* names of the loggers whose leveled methods are wrapped
    call        \* the last call made into the layer and what it did

vars == <<rank, multirun, cfg, files, filt, wandb, wrapped, call>>

----------------------------------------------------------------------------
(* Bounds *)

\* longest line typed at the tag prompt
MaxLineLen == 3

----------------------------------------------------------------------------
(* Values *)

None == "None"
NoExc == "none"

Ranks == {0, 1}
Alphabet == {"a", " ", ","}
LoggerNames == {"src.utils.utils", "__main__"}

\* pylogger.py:9
logging_levels ==
    <<"debug", "info", "warning", "error", "exception", "fatal", "critical">>

\* utils.py:99-107, the default of print_order
print_order ==
    <<"data", "model", "callbacks", "logger", "trainer", "paths", "extras">>

RECURSIVE SeqsUpTo(_, _)
SeqsUpTo(S, n) ==
    IF n = 0 THEN {<<>>}
    ELSE LET shorter == SeqsUpTo(S, n - 1)
         IN shorter \cup {Append(s, c) : s \in {t \in shorter : Len(t) = n - 1}, c \in S}

Lines == SeqsUpTo(Alphabet, MaxLineLen)

Range(s) == {s[i] : i \in 1..Len(s)}

RECURSIVE SelectKeys(_, _)
SelectKeys(s, K) ==
    IF s = <<>> THEN <<>>
    ELSE IF Head(s) \in K THEN <<Head(s)>> \o SelectKeys(Tail(s), K)
    ELSE SelectKeys(Tail(s), K)

----------------------------------------------------------------------------
(* Python strings, as sequences of characters *)

\* str.split(sep): the pieces between the separators, empty pieces kept
RECURSIVE SplitFrom(_, _, _)
SplitFrom(s, sep, cur) ==
    IF s = <<>> THEN <<cur>>
    ELSE IF Head(s) = sep THEN <<cur>> \o SplitFrom(Tail(s), sep, <<>>)
    ELSE SplitFrom(Tail(s), sep, Append(cur, Head(s)))

Split(s, sep) == SplitFrom(s, sep, <<>>)

RECURSIVE LStrip(_)
LStrip(s) ==
    IF s # <<>> /\ Head(s) = " " THEN LStrip(Tail(s)) ELSE s

RECURSIVE RStrip(_)
RStrip(s) ==
    IF s # <<>> /\ s[Len(s)] = " " THEN RStrip(SubSeq(s, 1, Len(s) - 1)) ELSE s

\* str.strip()
Strip(s) == LStrip(RStrip(s))

\* utils.py:83, Prompt.ask(..., default="dev"): an empty line gives the
\* default, any other line comes back stripped as a whole
PromptAsk(line) ==
    IF line = <<>> THEN <<"d", "e", "v">> ELSE Strip(line)

\* utils.py:84, [t.strip() for t in tags.split(",") if t != ""]: the
\* condition is on the piece before it is stripped
RECURSIVE StripKept(_)
StripKept(pieces) ==
    IF pieces = <<>> THEN <<>>
    ELSE IF Head(pieces) # <<>>
         THEN <<Strip(Head(pieces))>> \o StripKept(Tail(pieces))
         ELSE StripKept(Tail(pieces))

ParseTags(answer) == StripKept(Split(answer, ","))

----------------------------------------------------------------------------
(* The configuration object *)

\* the natural (composition) order of the top-level sections
CfgKeys == <<"seed", "tags", "extras", "paths", "model", "data">>
OptionalKeys == {"tags", "extras", "data"}
FlagValues == {"true", "false", "missing"}
NoFlags ==
    [ignore_warning |-> "missing", enforce_tags |-> "missing",
     print_config |-> "missing"]
TagLists == {<<>>, << <<"a">> >>}

Configs ==
    {[order |-> SelectKeys(CfgKeys, (Range(CfgKeys) \ OptionalKeys) \cup K),
      extras |-> e, tags |-> t] :
        K \in SUBSET OptionalKeys,
        e \in [ignore_warning : FlagValues, enforce_tags : FlagValues,
               print_config : FlagValues],
        t \in TagLists}

\* `field in cfg`
Has(c, k) == k \in Range(c.order)

\* a section that is absent carries no content
WellFormed(c) ==
    /\ (~Has(c, "extras") => c.extras = NoFlags)
    /\ (~Has(c, "tags") => c.tags = <<>>)

\* `cfg.get("extras")` is falsy for an absent and for an empty section
ExtrasTruthy(c) == Has(c, "extras") /\ c.extras # NoFlags

\* `cfg.get("tags")` is falsy for an absent and for an empty list
TagsTruthy(c) == Has(c, "tags") /\ c.tags # <<>>

\* utils.py:86-87, cfg.tags = tags under open_dict
SetTags(c, t) ==
    [c EXCEPT !.tags = t,
              !.order = IF Has(c, "tags") THEN @ ELSE Append(@, "tags")]

----------------------------------------------------------------------------
(* Execution records and statements *)

Event(op, what, msg) ==
    [op |-> op, what |-> what, msg |-> msg, tags |-> <<>>, tree |-> <<>>,
     line |-> <<>>]

Start ==
    [cfg |-> cfg, files |-> files, filt |-> filt, wandb |-> wandb,
     out |-> <<>>, exc |-> NoExc, ret |-> None]

Ok(st) == st.exc = NoExc

Raise(st, e) == IF Ok(st) THEN [st EXCEPT !.exc = e] ELSE st

Emit(st, ev) == IF Ok(st) THEN [st EXCEPT !.out = Append(@, ev)] ELSE st

\* pylogger.py:5-13: the function ends in a bare `return`
get_pylogger(name) == None

\* utils.py:19, the module-level handle
log == get_pylogger("src.utils.utils")

\* log.<level>(msg): attribute lookup on the handle, then the method that
\* rank_zero_only lets through on rank zero only
LogCall(st, level, msg) ==
    IF ~Ok(st) THEN st
    ELSE IF log = None THEN Raise(st, "AttributeError")
    ELSE IF rank = 0 THEN Emit(st, Event("log", level, msg))
    ELSE st

\* utils.py:92-93, open(Path(cfg.paths.output_dir, "tags.log"), "w") and
\* rich.print(cfg.tags, file=file)
WriteTags(st, name) ==
    IF ~Ok(st) THEN st
    ELSE [st EXCEPT
            !.files = {f \in @ : f.name # name}
                        \cup {[name |-> name, tags |-> st.cfg.tags]},
            !.out = Append(@, [Event("write", name, "") EXCEPT
                                  !.tags = st.cfg.tags])]

----------------------------------------------------------------------------
(* utils.py *)

\* utils.py:83-87: the prompt is shown, `line` is typed, and the parsed
\* answer is stored under `tags`
AskTags(st, line) ==
    IF ~Ok(st) THEN st
    ELSE [st EXCEPT
            !.out = Append(@, [Event("prompt", "tags", "") EXCEPT
                                  !.line = line]),
            !.cfg = SetTags(@, ParseTags(PromptAsk(line)))]

\* utils.py:78-93 with the test of line 79 left out
enforce_tag_body_unguarded(st, save_to_file, line) ==
    LET checked ==
            IF TagsTruthy(st.cfg) THEN st
            ELSE LogCall(AskTags(LogCall(st, "warning", "No tags provided"),
                                 line),
                         "info", "Tags")
    IN IF save_to_file THEN WriteTags(checked, "tags.log") ELSE checked

\* utils.py:78-93, the body of enforce_tag; `line` is what the user types
\* if the prompt is shown
enforce_tag_body(st, save_to_file, line) ==
    LET checked ==
            IF TagsTruthy(st.cfg) THEN st
            ELSE IF multirun THEN Raise(st, "ValueError")
            ELSE LogCall(AskTags(LogCall(st, "warning", "No tags provided"),
                                 line),
                         "info", "Tags")
    IN IF save_to_file THEN WriteTags(checked, "tags.log") ELSE checked

\* utils.py:70-71, @rank_zero_only: the body runs on rank zero, any other
\* rank returns None at once
enforce_tag(st, save_to_file, line) ==
    IF ~Ok(st) \/ rank # 0 THEN st
    ELSE enforce_tag_body(st, save_to_file, line)

\* utils.py:125-126, the loop over print_order: a field of the
\* configuration joins the queue, any other is warned about
RECURSIVE QueueOrdered(_, _, _)
QueueOrdered(st, order, queue) ==
    IF order = <<>> \/ ~Ok(st) THEN [st |-> st, queue |-> queue]
    ELSE IF Has(st.cfg, Head(order))
         THEN QueueOrdered(st, Tail(order), Append(queue, Head(order)))
         ELSE QueueOrdered(LogCall(st, "warning", Head(order)),
                           Tail(order), queue)

\* utils.py:129-131, the remaining fields in their natural order
RECURSIVE QueueRest(_, _)
QueueRest(fields, queue) ==
    IF fields = <<>> THEN queue
    ELSE IF Head(fields) \in Range(queue) THEN QueueRest(Tail(fields), queue)
    ELSE QueueRest(Tail(fields), Append(queue, Head(fields)))

\* utils.py:119-146, the body of print_config_tree.  Line 119 is the
\* expression `style - "dim"` with `style` the function imported from click
\* at line 7: a function minus a string raises TypeError.  Nothing in the
\* body opens config_tree.log.
print_config_tree_body(st, resolve, save_to_file) ==
    LET styled == Raise(st, "TypeError")
        ordered == QueueOrdered(styled, print_order, <<>>)
        queue == QueueRest(ordered.st.cfg.order, ordered.queue)
    IN IF Ok(ordered.st)
       THEN Emit(ordered.st, [Event("print", "stdout", "") EXCEPT
                                 !.tree = queue])
       ELSE ordered.st

\* utils.py:96-97, @rank_zero_only
print_config_tree(st, resolve, save_to_file) ==
    IF ~Ok(st) \/ rank # 0 THEN st
    ELSE print_config_tree_body(st, resolve, save_to_file)

\* utils.py:57, 61, 65: `cfg.extras.get(flag)`; with no extras section
\* `cfg.extras` is no mapping and the attribute access fails
ExtrasFlag(st, flag) ==
    IF ~Ok(st) THEN st
    ELSE IF ~Has(st.cfg, "extras") THEN Raise(st, "AttributeError")
    ELSE st

FlagSet(st, flag) == Ok(st) /\ st.cfg.extras[flag] = "true"

\* utils.py:46-67
extras(st, line) ==
    LET found == IF Ok(st) /\ ~ExtrasTruthy(st.cfg)
                 THEN LogCall(st, "warning", "Extra config not found")
                 ELSE st
        w0 == ExtrasFlag(found, "ignore_warning")
        w1 == IF FlagSet(w0, "ignore_warning")
              THEN LET said == LogCall(w0, "info", "Disable python warning")
                   IN IF Ok(said)
                      THEN Emit([said EXCEPT !.filt = TRUE],
                                Event("filterwarnings", "ignore", ""))
                      ELSE said
              ELSE w0
        t0 == ExtrasFlag(w1, "enforce_tags")
        t1 == IF FlagSet(t0, "enforce_tags")
              THEN enforce_tag(LogCall(t0, "info", "Enforcing tags"),
                               TRUE, line)
              ELSE t0
        p0 == ExtrasFlag(t1, "print_config")
    IN IF FlagSet(p0, "print_config")
       THEN print_config_tree(LogCall(p0, "info", "Printing config tree"),
                              TRUE, TRUE)
       ELSE p0

\* utils.py:148-157
close_loggers(st) ==
    LET entered == Emit(st, Event("call", "close_loggers", ""))
        said == LogCall(entered, "info", "Closing loggers")
    IN IF Ok(said) /\ said.wandb = "running"
       THEN LET closing == LogCall(said, "info", "Close wandb!")
            IN IF Ok(closing)
               THEN Emit([closing EXCEPT !.wandb = "idle"],
                         Event("call", "wandb.finish", ""))
               ELSE closing
       ELSE said

\* utils.py:34, task_func(cfg): returns the pair or raises
task_func(st, task) ==
    LET entered == Emit(st, Event("call", "task_func", ""))
    IN IF ~Ok(entered) THEN entered
       ELSE IF task = "raise" THEN Raise(entered, "RuntimeError")
       ELSE [entered EXCEPT !.ret = "pair"]

\* utils.py:38-40, the finally block: it runs with the exception of the try
\* statement set aside; an exception of its own replaces that one
Finally(st) ==
    LET said == LogCall([st EXCEPT !.exc = NoExc], "info", "Output dir")
        closed == close_loggers(said)
    IN IF Ok(closed) THEN [closed EXCEPT !.exc = st.exc] ELSE closed

\* utils.py:31-41, wrapper(cfg)
wrapper(st, task, line) ==
    LET tried == task_func(extras(st, line), task)
        handled == IF Ok(tried) THEN tried
                   ELSE LET said == LogCall([tried EXCEPT !.exc = NoExc],
                                            "exception", "")
                        IN IF Ok(said) THEN [said EXCEPT !.exc = tried.exc]
                           ELSE said
        final == Finally(handled)
    IN IF Ok(final) THEN final ELSE [final EXCEPT !.ret = None]

----------------------------------------------------------------------------
(* The calls into the layer *)

Call(op, what, save, st) ==
    [op |-> op, what |-> what, save |-> save, pre |-> cfg,
     prefiles |-> files, out |-> st.out, exc |-> st.exc, ret |-> st.ret]

Init ==
    /\ rank \in Ranks
    /\ multirun \in BOOLEAN
    /\ cfg \in {c \in Configs : WellFormed(c)}
    /\ files = {}
    /\ filt = FALSE
    /\ wandb \in {"absent", "idle", "running"}
    /\ wrapped = {"src.utils.utils"}
    /\ call = Call("import", "", FALSE, Start)

Finish(op, what, save, st) ==
    /\ cfg' = st.cfg
    /\ files' = st.files
    /\ filt' = st.filt
    /\ wandb' = st.wandb
    /\ call' = Call(op, what, save, st)
    /\ UNCHANGED <<rank, multirun>>

\* pylogger.py:5-13, get_pylogger(name): logging.getLogger(name) finds or
\* creates the logger of that name, each leveled method is put behind
\* rank_zero_only, and nothing is returned
GetPylogger(name) ==
    /\ wrapped' = wrapped \cup {name}
    /\ Finish("get_pylogger", name, FALSE,
              [Start EXCEPT !.ret = get_pylogger(name)])

\* log.<level>("...") on the handle of utils.py:19
LogMethod(level) ==
    /\ Finish("log", level, FALSE, LogCall(Start, level, "message"))
    /\ UNCHANGED wrapped

\* the prompt of utils.py:83 is the only reader of the terminal: a line is
\* typed only in a call that shows it
Prompted(st) == \E i \in 1..Len(st.out) : st.out[i].op = "prompt"

Typed(st) == IF Prompted(st) THEN Lines ELSE {<<>>}

EnforceTag(save_to_file, line) ==
    /\ Finish("enforce_tag", "", save_to_file,
              enforce_tag(Start, save_to_file, line))
    /\ UNCHANGED wrapped

PrintConfigTree(resolve, save_to_file) ==
    /\ Finish("print_config_tree", "", save_to_file,
              print_config_tree(Start, resolve, save_to_file))
    /\ UNCHANGED wrapped

Extras(line) ==
    /\ Finish("extras", "", FALSE, extras(Start, line))
    /\ UNCHANGED wrapped

CloseLoggers ==
    /\ Finish("close_loggers", "", FALSE, close_loggers(Start))
    /\ UNCHANGED wrapped

\* a call of a function decorated with task_wrapper
Wrapper(task, line) ==
    /\ Finish("wrapper", task, FALSE, wrapper(Start, task, line))
    /\ UNCHANGED wrapped

Next ==
    \/ \E name \in LoggerNames : GetPylogger(name)
    \/ \E level \in Range(logging_levels) : LogMethod(level)
    \/ \E save \in BOOLEAN :
          \E line \in Typed(enforce_tag(Start, save, <<>>)) :
              EnforceTag(save, line)
    \/ \E resolve \in BOOLEAN, save \in BOOLEAN : PrintConfigTree(resolve, save)
    \/ \E line \in Typed(extras(Start, <<>>)) : Extras(line)
    \/ CloseLoggers
    \/ \E task \in {"return", "raise"} :
          \E line \in Typed(wrapper(Start, task, <<>>)) : Wrapper(task, line)

Spec == Init /\ [][Next]_vars

----------------------------------------------------------------------------
(* Lines 83-93 of enforce_tag on their own: the answer typed at the prompt *)
(* is parsed, stored and, if asked for, saved                              *)

PromptTags(save_to_file, line) ==
    /\ rank = 0
    /\ ~multirun
    /\ ~TagsTruthy(cfg)
    /\ Finish("prompt_tags", "", save_to_file,
              LET stored == AskTags(Start, line)
              IN IF save_to_file THEN WriteTags(stored, "tags.log")
                 ELSE stored)
    /\ UNCHANGED wrapped

TagNext == \E save \in BOOLEAN, line \in Lines : PromptTags(save, line)

TagSpec == Init /\ [][TagNext]_vars

----------------------------------------------------------------------------
(* Reading a call's record *)

Count(out, op, what) ==
    Cardinality({i \in 1..Len(out) : out[i].op = op /\ out[i].what = what})

Logged(out, level, msg) ==
    Cardinality({i \in 1..Len(out) :
        out[i].op = "log" /\ out[i].what = level /\ out[i].msg = msg})

\* i < j for every occurrence i of the first and j of the second event
Before(out, op1, what1, op2, what2) ==
    \A i, j \in 1..Len(out) :
        (out[i].op = op1 /\ out[i].what = what1
            /\ out[j].op = op2 /\ out[j].what = what2) => i < j

Flag(c, flag) == c.extras[flag] = "true"

\* the pieces of an answer, each trimmed, the empty ones dropped
RECURSIVE TrimmedNonEmpty(_)
TrimmedNonEmpty(pieces) ==
    IF pieces = <<>> THEN <<>>
    ELSE IF Strip(Head(pieces)) # <<>>
         THEN <<Strip(Head(pieces))>> \o TrimmedNonEmpty(Tail(pieces))
         ELSE TrimmedNonEmpty(Tail(pieces))

\* the branches a configuration's tree is to have
Branches(c) ==
    SelectKeys(print_order, Range(c.order))
        \o SelectKeys(c.order, Range(c.order) \ Range(print_order))

----------------------------------------------------------------------------
(* Claims *)

\* C1: every call of a wrapped function, however it ends, invokes
\* close_loggers exactly once and (where logging is let through, on rank
\* zero) emits the output-directory line exactly once.
C1_FinalizerOnce ==
    call.op = "wrapper" =>
        /\ Count(call.out, "call", "close_loggers") = 1
        /\ (rank = 0 => Logged(call.out, "info", "Output dir") = 1)

\* C2: when the task function raises E the wrapper logs an exception entry
\* and raises exactly E; when it returns the pair the wrapper returns the
\* pair.
C2_PropagatesUnchanged ==
    (call.op = "wrapper" /\ Count(call.out, "call", "task_func") = 1) =>
        IF call.what = "raise"
        THEN /\ call.exc = "RuntimeError"
             /\ (rank = 0 => Logged(call.out, "exception", "") = 1)
        ELSE call.exc = NoExc /\ call.ret = "pair"

\* C3: get_pylogger never fails and returns the logger of the name asked
\* for, never None.
C3_ReturnsNamedLogger ==
    call.op = "get_pylogger" =>
        call.exc = NoExc /\ call.ret # None /\ call.ret = call.what

\* C4: off rank zero a leveled method of the logger, enforce_tag and
\* print_config_tree do nothing that can be observed: no event, no
\* exception, the configuration and the files as before.
C4_SilentOffRankZero ==
    (rank # 0 /\ call.op \in {"log", "enforce_tag", "print_config_tree"}) =>
        /\ call.out = <<>>
        /\ call.exc = NoExc
        /\ cfg = call.pre
        /\ files = call.prefiles

\* C5: on rank zero, with no tags field and a job id in the launch state,
\* enforce_tag raises the validation error without prompting, without
\* touching the configuration and without writing tags.log, whatever
\* save_to_file is.
C5_MultirunRaises ==
    (call.op = "enforce_tag" /\ rank = 0 /\ multirun
        /\ ~Has(call.pre, "tags")) =>
        /\ call.exc = "ValueError"
        /\ call.out = <<>>
        /\ cfg = call.pre
        /\ files = call.prefiles

C5_Witness ==
    /\ call.op = "enforce_tag" /\ rank = 0 /\ multirun
    /\ ~Has(call.pre, "tags")
    /\ call.save
    /\ call.exc = "ValueError"

C7_NoExtrasReturns ==
    /\ (call.op = "extras" /\ ~Has(call.pre, "extras")) =>
          /\ call.exc = NoExc
          /\ (rank = 0 =>
                Logged(call.out, "warning", "Extra config not found") = 1)
          /\ Count(call.out, "filterwarnings", "ignore") = 0
          /\ Count(call.out, "print", "stdout") = 0
          /\ cfg = call.pre
    /\ (call.op = "wrapper" /\ ~Has(call.pre, "extras")) =>
          Count(call.out, "call", "task_func") = 1

\* C8: the extras runner performs exactly the steps whose flag is true, once
\* each, warning suppression before tag enforcement before printing, and in
\* a wrapped call all of them before the task function.
C8_StepsFollowFlags ==
    /\ (call.op = "extras" /\ Has(call.pre, "extras")) =>
          /\ Count(call.out, "filterwarnings", "ignore")
                = (IF Flag(call.pre, "ignore_warning") THEN 1 ELSE 0)
          /\ filt = Flag(call.pre, "ignore_warning")
          /\ (rank = 0 /\ TagsTruthy(call.pre)) =>
                /\ Count(call.out, "write", "tags.log")
                      = (IF Flag(call.pre, "enforce_tags") THEN 1 ELSE 0)
                /\ Count(call.out, "print", "stdout")
                      = (IF Flag(call.pre, "print_config") THEN 1 ELSE 0)
          /\ Before(call.out, "filterwarnings", "ignore", "write", "tags.log")
          /\ Before(call.out, "write", "tags.log", "print", "stdout")
    /\ call.op = "wrapper" =>
          /\ Before(call.out, "filterwarnings", "ignore", "call", "task_func")
          /\ Before(call.out, "write", "tags.log", "call", "task_func")
          /\ Before(call.out, "print", "stdout", "call", "task_func")
          /\ (Has(call.pre, "extras") /\ Flag(call.pre, "ignore_warning")) =>
                Count(call.out, "filterwarnings", "ignore") = 1

\* C9: on rank zero print_config_tree prints one tree with one branch per
\* section of the configuration, the preferred sections first in their
\* fixed order and the others after them in natural order, and warns once
\* for each preferred section that is absent, without failing.
C9_TreeBranches ==
    (call.op = "print_config_tree" /\ rank = 0) =>
        /\ call.exc = NoExc
        /\ Count(call.out, "print", "stdout") = 1
        /\ \A i \in 1..Len(call.out) :
              call.out[i].op = "print" => call.out[i].tree = Branches(call.pre)
        /\ \A k \in Range(print_order) :
              Logged(call.out, "warning", k)
                  = (IF Has(call.pre, k) THEN 0 ELSE 1)

\* C10: on rank zero print_config_tree with save_to_file completes without
\* error, prints the tree and writes it to config_tree.log in the output
\* directory.
C10_TreeSaved ==
    (call.op = "print_config_tree" /\ rank = 0 /\ call.save) =>
        /\ call.exc = NoExc
        /\ Count(call.out, "print", "stdout") = 1
        /\ \E f \in files : f.name = "config_tree.log"

====
